---- MODULE Spec2Model ----
(***************************************************************************)
(* Model of the OBD-II accessor layer (src/src/accessors.rs): the trait    *)
(* Obd2Device with its raw command primitives, the fixed-length and        *)
(* fixed-count combinators, the derived accessors, the Dtc Display         *)
(* rendering and the Error taxonomy.                                       *)
(*                                                                         *)
(* A call of an accessor is one action: the reply of the transport is the  *)
(* action's input, the requests the call issues and the value it returns   *)
(* (Ok, Err, or a panic) are its outputs.                                  *)
(***************************************************************************)
EXTENDS Integers, Sequences, FiniteSets

VARIABLES
    pc,      \* "idle": no call in progress; "returned": a call has returned
    op,      \* the accessor called last ("none" before the first call)
    args,    \* its const generic parameters [len, cnt] (0 where it has none)
    reply,   \* what the transport answered to the call's request
    sent,    \* the requests the call issued, in order
    result,  \* what the call returned: Ok(v), Err(e) or Panic
    calls,   \* number of accessor calls made so far
    issued,  \* number of requests issued to the transport so far
    dtc,     \* the Dtc value given to Display
    text     \* its rendering, a sequence of characters

vars == <<pc, op, args, reply, sent, result, calls, issued, dtc, text>>

-----------------------------------------------------------------------------
(* Bounds of the model *)

MaxEcus == 2     \* most ECUs answering one request
MaxLen == 5      \* longest payload of one ECU
MaxCalls == 2    \* calls counted in a sequence of calls

-----------------------------------------------------------------------------
(* Results, errors, panics *)

Ok(v) == [kind |-> "Ok", val |-> v]
Err(e) == [kind |-> "Err", err |-> e]
Panic(why) == [kind |-> "Panic", why |-> why]
None == [kind |-> "None"]

Device(e) == [tag |-> "Device", e |-> e]
Other(msg) == [tag |-> "Other", msg |-> msg]
IncorrectResponseLength(what, expected, actual) ==
    [tag |-> "IncorrectResponseLength", what |-> what,
     expected |-> expected, actual |-> actual]

-----------------------------------------------------------------------------
(* u8 / u16 arithmetic *)

RECURSIVE BitAnd(_, _)
BitAnd(a, b) ==
    IF a = 0 \/ b = 0 THEN 0
    ELSE (a % 2) * (b % 2) + 2 * BitAnd(a \div 2, b \div 2)

RECURSIVE BitOr(_, _)
BitOr(a, b) ==
    IF a = 0 THEN b
    ELSE IF b = 0 THEN a
    ELSE (IF a % 2 = 1 \/ b % 2 = 1 THEN 1 ELSE 0) + 2 * BitOr(a \div 2, b \div 2)

Shr(a, k) == a \div (2 ^ k)
Shl(a, k, width) == (a * (2 ^ k)) % (2 ^ width)

-----------------------------------------------------------------------------
(* The raw command primitives: one request to the transport, whose reply r *)
(* (Ok(responses) or Err(error)) is handed back.                           *)

(* A request carries its PID as an optional value: <<pid>>, or <<>> for a   *)
(* mode-only command.                                                      *)

obd_command(mode, pid, r) ==
    [sent |-> <<[mode |-> mode, pid |-> <<pid>>]>>, res |-> r]

obd_mode_command(mode, r) ==
    [sent |-> <<[mode |-> mode, pid |-> <<>>]>>, res |-> r]

(* Iterator::collect into Result<Vec<_>>: the first outcome that is not Ok *)
(* ends the iteration and is the result; else the values in order.         *)
FirstBad(outs) ==
    CHOOSE i \in 1..Len(outs) :
        /\ outs[i].kind # "Ok"
        /\ \A j \in 1..(i - 1) : outs[j].kind = "Ok"

Collect(outs) ==
    IF \E i \in 1..Len(outs) : outs[i].kind # "Ok"
    THEN outs[FirstBad(outs)]
    ELSE Ok([i \in 1..Len(outs) |-> outs[i].val])

-----------------------------------------------------------------------------
(* obd_command_len and obd_command_cnt_len *)

(* Faulty variant of LenItem: expected and actual lengths exchanged. *)
LenItemWrongSlot(L, v) ==
    IF Len(v) = L THEN Ok(v)
    ELSE Err(IncorrectResponseLength("length", Len(v), L))

LenItem(L, v) ==
    IF Len(v) = L THEN Ok(v)
    ELSE Err(IncorrectResponseLength("length", L, Len(v)))

obd_command_len(L, mode, pid, r) ==
    LET c == obd_command(mode, pid, r) IN
    IF c.res.kind # "Ok" THEN [sent |-> c.sent, result |-> c.res]
    ELSE [sent |-> c.sent,
          result |-> Collect([i \in 1..Len(c.res.val) |-> LenItem(L, c.res.val[i])])]

(* Faulty variant of CntItem: the count is not checked. *)
CntItemNoCheck(N, vs) == Ok(vs)

CntItem(N, vs) ==
    IF Len(vs) = N THEN Ok(vs)
    ELSE Err(IncorrectResponseLength("count", N, Len(vs)))

obd_command_cnt_len(N, L, mode, pid, r) ==
    LET c == obd_command_len(L, mode, pid, r) IN
    IF c.result.kind # "Ok" THEN c
    ELSE [sent |-> c.sent, result |-> CntItem(N, c.result.val)]

-----------------------------------------------------------------------------
(* get_vin *)

IsCont(b) == b >= 128 /\ b <= 191

(* Length of the well-formed UTF-8 sequence at the head of bs, 0 if none    *)
(* (String::from_utf8's validation).                                       *)
Utf8Step(bs) ==
    LET b == bs[1]
        n == Len(bs)
    IN  IF b <= 127 THEN 1
        ELSE IF b >= 194 /\ b <= 223
             THEN IF n >= 2 /\ IsCont(bs[2]) THEN 2 ELSE 0
        ELSE IF b >= 224 /\ b <= 239
             THEN IF /\ n >= 3
                     /\ IsCont(bs[2])
                     /\ IsCont(bs[3])
                     /\ (b = 224 => bs[2] >= 160)
                     /\ (b = 237 => bs[2] <= 159)
                  THEN 3 ELSE 0
        ELSE IF b >= 240 /\ b <= 244
             THEN IF /\ n >= 4
                     /\ IsCont(bs[2])
                     /\ IsCont(bs[3])
                     /\ IsCont(bs[4])
                     /\ (b = 240 => bs[2] >= 144)
                     /\ (b = 244 => bs[2] <= 143)
                  THEN 4 ELSE 0
        ELSE 0

RECURSIVE Utf8Valid(_)
Utf8Valid(bs) ==
    IF bs = <<>> THEN TRUE
    ELSE LET k == Utf8Step(bs) IN
         IF k = 0 THEN FALSE ELSE Utf8Valid(SubSeq(bs, k + 1, Len(bs)))

(* String::from_utf8(bytes)? with From<FromUtf8Error> for Error *)
from_utf8(bytes) ==
    IF Utf8Valid(bytes) THEN Ok(bytes)
    ELSE Err(Other(<<"invalid string recieved: ", bytes>>))

get_vin(r) ==
    LET c == obd_command(9, 2, r) IN
    IF c.res.kind # "Ok" THEN [sent |-> c.sent, result |-> c.res]
    ELSE LET v == c.res.val IN
         [sent |-> c.sent,
          result |->
            IF v = <<>> THEN Panic("unwrap on None")
            ELSE LET last == v[Len(v)] IN
                 IF last = <<>> THEN Panic("remove index out of bounds")
                 ELSE from_utf8(Tail(last))]

-----------------------------------------------------------------------------
(* get_dtc_info *)

(* Faulty variant of DtcsInfoOf: bytes 2 and 3 exchanged. *)
DtcsInfoOfSwapped(response) ==
    [malfunction_indicator_light |-> BitAnd(response[1], 128) = 128,
     dtc_count |-> BitAnd(response[1], 127),
     common_test_availability |->
        BitOr(Shr(BitAnd(response[2], 240), 1), BitAnd(response[2], 7)),
     is_compression_engine |-> BitAnd(response[2], 8) = 8,
     specific_test_availability |->
        BitOr(Shl(response[3], 8, 16), response[4])]

DtcsInfoOf(response) ==
    [malfunction_indicator_light |-> BitAnd(response[1], 128) = 128,
     dtc_count |-> BitAnd(response[1], 127),
     common_test_availability |->
        BitOr(Shr(BitAnd(response[2], 240), 1), BitAnd(response[2], 7)),
     is_compression_engine |-> BitAnd(response[2], 8) = 8,
     specific_test_availability |->
        BitOr(Shl(response[4], 8, 16), response[3])]

DtcInfoItem(response) ==
    IF Len(response) = 4 THEN Ok(DtcsInfoOf(response))
    ELSE Err(Other(<<"get_dtc_info: expected length 4, got ", Len(response)>>))

get_dtc_info(r) ==
    LET c == obd_command(1, 1, r) IN
    IF c.res.kind # "Ok" THEN [sent |-> c.sent, result |-> c.res]
    ELSE [sent |-> c.sent,
          result |-> Collect([i \in 1..Len(c.res.val) |-> DtcInfoItem(c.res.val[i])])]

-----------------------------------------------------------------------------
(* get_dtcs *)

Powertrain(n) == [tag |-> "Powertrain", code |-> n]
Chassis(n) == [tag |-> "Chassis", code |-> n]
Body(n) == [tag |-> "Body", code |-> n]
Network(n) == [tag |-> "Network", code |-> n]

(* Faulty variant of DtcOfByte: the tag read from the top bit only. *)
DtcOfByteShifted(b) ==
    LET t == Shr(b, 7) IN
    IF t = 0 THEN Powertrain(0)
    ELSE IF t = 1 THEN Chassis(0)
    ELSE IF t = 2 THEN Body(0)
    ELSE Network(0)

(* match response[i] >> 6 { 0 => .., 1 => .., 2 => .., 3 => .. } *)
DtcOfByte(b) ==
    LET t == Shr(b, 6) IN
    IF t = 0 THEN Powertrain(0)
    ELSE IF t = 1 THEN Chassis(0)
    ELSE IF t = 2 THEN Body(0)
    ELSE Network(0)

(* for i in (1..response.len()).step_by(2) { ret.push(..response[i]..) },   *)
(* i a 0-based index: response[i] is element i + 1 of the sequence.        *)
RECURSIVE DtcLoop(_, _, _)
DtcLoop(response, i, ret) ==
    IF i >= Len(response) THEN ret
    ELSE DtcLoop(response, i + 2, Append(ret, DtcOfByte(response[i + 1])))

(* Faulty variant of DtcsItem: an even total length is decoded. *)
DtcsItemEvenTotal(response) ==
    IF response = <<>>
    THEN Err(Other(<<"no response bytes when getting DTCs">>))
    ELSE IF response[1] = 0
    THEN IF Len(response) % 2 = 0
         THEN Ok(DtcLoop(response, 1, <<>>))
         ELSE Err(Other(<<"invalid response when getting DTCs ", response>>))
    ELSE IF response[1] <= 3 THEN Panic("not yet implemented")
    ELSE Err(Other(<<"invalid response ", response, " when getting DTCs">>))

DtcsItem(response) ==
    IF response = <<>>
    THEN Err(Other(<<"no response bytes when getting DTCs">>))
    ELSE IF response[1] = 0
    THEN IF Len(response) % 2 = 1
         THEN Ok(DtcLoop(response, 1, <<>>))
         ELSE Err(Other(<<"invalid response when getting DTCs ", response>>))
    ELSE IF response[1] <= 3 THEN Panic("not yet implemented")
    ELSE Err(Other(<<"invalid response ", response, " when getting DTCs">>))

get_dtcs(r) ==
    LET c == obd_mode_command(3, r) IN
    IF c.res.kind # "Ok" THEN [sent |-> c.sent, result |-> c.res]
    ELSE [sent |-> c.sent,
          result |-> Collect([i \in 1..Len(c.res.val) |-> DtcsItem(c.res.val[i])])]

-----------------------------------------------------------------------------
(* get_rpm and get_speed *)

from_be_bytes(bytes) == bytes[1] * 256 + bytes[2]

(* An f32 as the exact fraction num/den: every u16 is an f32, and dividing *)
(* one by 4.0 changes the exponent only.                                   *)
F32FromU16(n) == [num |-> n, den |-> 1]
F32Div(x, d) == [num |-> x.num, den |-> x.den * d]

(* Faulty variant of RpmOf: the bytes read little-endian. *)
RpmOfLittleEndian(bytes) == F32Div(F32FromU16(bytes[2] * 256 + bytes[1]), 4)

RpmOf(bytes) == F32Div(F32FromU16(from_be_bytes(bytes)), 4)

get_rpm(r) ==
    LET c == obd_command_cnt_len(1, 2, 1, 12, r) IN
    IF c.result.kind # "Ok" THEN c
    ELSE [sent |-> c.sent, result |-> Ok(RpmOf(c.result.val[1]))]

(* Faulty variant of get_speed: a second request after a transport failure. *)
get_speed_retry(r) ==
    LET c == obd_command_cnt_len(1, 1, 1, 12, r) IN
    IF c.result.kind # "Ok"
    THEN IF r.kind # "Ok" THEN [sent |-> c.sent \o c.sent, result |-> c.result]
         ELSE c
    ELSE [sent |-> c.sent, result |-> Ok(c.result.val[1][1])]

get_speed(r) ==
    LET c == obd_command_cnt_len(1, 1, 1, 12, r) IN
    IF c.result.kind # "Ok" THEN c
    ELSE [sent |-> c.sent, result |-> Ok(c.result.val[1][1])]

-----------------------------------------------------------------------------
(* impl fmt::Display for Dtc *)

HexChars == <<"0", "1", "2", "3", "4", "5", "6", "7",
              "8", "9", "A", "B", "C", "D", "E", "F">>

RECURSIVE UpperHex(_)
UpperHex(n) ==
    IF n < 16 THEN <<HexChars[n + 1]>>
    ELSE Append(UpperHex(n \div 16), HexChars[(n % 16) + 1])

RECURSIVE ZeroPad(_, _)
ZeroPad(s, width) == IF Len(s) >= width THEN s ELSE ZeroPad(<<"0">> \o s, width)

DtcLetter(d) ==
    IF d.tag = "Powertrain" THEN "P"
    ELSE IF d.tag = "Chassis" THEN "C"
    ELSE IF d.tag = "Body" THEN "B"
    ELSE "U"

(* Faulty variant of DtcFmt: no zero padding. *)
DtcFmtNoPad(d) == <<DtcLetter(d)>> \o UpperHex(d.code)

(* format_args!("{}{:03X}", c, n) *)
DtcFmt(d) == <<DtcLetter(d)>> \o ZeroPad(UpperHex(d.code), 3)

-----------------------------------------------------------------------------
(* Inputs: what the transport can answer *)

DeviceErrors == {"timeout", "io"}

ByteSeqs(B, n) == UNION {[1..k -> B] : k \in 0..n}

Lengths == 0..MaxLen
Counts == 0..MaxEcus

(* The payload alphabets, the payloads P one ECU may answer and the        *)
(* payloads Q the other ECUs answer, per accessor.                         *)
AnyBytes == {0, 65}
AnyP == ByteSeqs(AnyBytes, MaxLen)
AnyQ == {<<0, 65>>}

LenBytes == {26, 248}
LenP == ByteSeqs(LenBytes, MaxLen)
LenQ == {<<26>>, <<26, 248>>, <<248, 26, 26>>}

VinBytes == {65, 195, 169, 255}
VinP == ByteSeqs(VinBytes, MaxLen)
VinQ == {<<>>, <<65, 65>>}

InfoBytes == {0, 2, 3, 8, 127, 129, 152, 255}
InfoP == [1..4 -> InfoBytes] \cup ByteSeqs({129}, MaxLen)
InfoQ == {<<129, 152, 2, 3>>, <<129>>}

DtcFirstBytes == {0, 1, 3, 4}
DtcDataBytes == {0, 67, 129, 193}
DtcP ==
    {<<>>} \cup
    {<<f>> \o d : f \in DtcFirstBytes, d \in ByteSeqs(DtcDataBytes, MaxLen - 1)}
DtcQ == {<<0, 67, 0>>, <<>>, <<1>>}

RpmQ == {<<26, 248>>, <<26>>}

MaxCode == 65535
DtcTags == {"Powertrain", "Chassis", "Body", "Network"}

-----------------------------------------------------------------------------
(* State machine *)

NoArgs == [len |-> 0, cnt |-> 0]

Init ==
    /\ pc = "idle"
    /\ op = "none"
    /\ args = NoArgs
    /\ reply = None
    /\ sent = <<>>
    /\ result = None
    /\ calls = 0
    /\ issued = 0
    /\ dtc = None
    /\ text = <<>>

(* A call of accessor name with outcome c = [sent, result] on reply r. *)
Call(name, a, r, c) ==
    /\ pc' = "returned"
    /\ op' = name
    /\ args' = a
    /\ reply' = r
    /\ sent' = c.sent
    /\ result' = c.result
    /\ calls' = calls + 1
    /\ issued' = issued + Len(c.sent)
    /\ UNCHANGED <<dtc, text>>

CanCall == pc = "idle" /\ calls < MaxCalls

(* The default method name of the trait, with const parameters a, run on   *)
(* the transport's answer r.                                               *)
Run(name, a, r) ==
    CASE name = "obd_command_len" -> obd_command_len(a.len, 1, 12, r)
      [] name = "obd_command_cnt_len" -> obd_command_cnt_len(a.cnt, a.len, 1, 12, r)
      [] name = "get_vin" -> get_vin(r)
      [] name = "get_dtc_info" -> get_dtc_info(r)
      [] name = "get_dtcs" -> get_dtcs(r)
      [] name = "get_rpm" -> get_rpm(r)
      [] name = "get_speed" -> get_speed(r)

(* A call whose one request the transport answers with a failure, or with  *)
(* the responses of at most MaxEcus ECUs, of which one answers any payload *)
(* of P and the others a payload of Q.                                     *)
Invoke(name, a, P, Q) ==
    /\ CanCall
    /\ \/ \E e \in DeviceErrors :
             Call(name, a, Err(Device(e)), Run(name, a, Err(Device(e))))
       \/ Call(name, a, Ok(<<>>), Run(name, a, Ok(<<>>)))
       \/ \E n \in 1..MaxEcus : \E k \in 1..n, p \in P, qs \in [1..n -> Q] :
             LET r == Ok([i \in 1..n |-> IF i = k THEN p ELSE qs[i]])
             IN  Call(name, a, r, Run(name, a, r))

ObdCommandLen(P, Q) ==
    \E L \in Lengths : Invoke("obd_command_len", [len |-> L, cnt |-> 0], P, Q)

ObdCommandCntLen(P, Q) ==
    \E N \in Counts, L \in Lengths :
        Invoke("obd_command_cnt_len", [len |-> L, cnt |-> N], P, Q)

GetVin(P, Q) == Invoke("get_vin", NoArgs, P, Q)

GetDtcInfo(P, Q) == Invoke("get_dtc_info", NoArgs, P, Q)

GetDtcs(P, Q) == Invoke("get_dtcs", NoArgs, P, Q)

GetRpm(P, Q) == Invoke("get_rpm", NoArgs, P, Q)

(* get_rpm on every 2-byte payload of a single ECU *)
GetRpmOneEcu ==
    /\ CanCall
    /\ \E hi \in 0..255, lo \in 0..255 :
          Call("get_rpm", NoArgs, Ok(<<<<hi, lo>>>>),
               Run("get_rpm", NoArgs, Ok(<<<<hi, lo>>>>)))

GetSpeed(P, Q) == Invoke("get_speed", NoArgs, P, Q)

(* The caller takes the returned value; nothing of the call is kept. *)
Return ==
    /\ pc = "returned"
    /\ pc' = "idle"
    /\ op' = "none"
    /\ args' = NoArgs
    /\ reply' = None
    /\ sent' = <<>>
    /\ result' = None
    /\ UNCHANGED <<calls, issued, dtc, text>>

(* Display of a Dtc value *)
Display ==
    /\ dtc = None
    /\ \E t \in DtcTags, n \in 0..MaxCode :
          /\ dtc' = [tag |-> t, code |-> n]
          /\ text' = DtcFmt([tag |-> t, code |-> n])
    /\ UNCHANGED <<pc, op, args, reply, sent, result, calls, issued>>

(* Any sequence of accessor calls. *)
Next ==
    \/ ObdCommandLen(AnyP, AnyQ)
    \/ ObdCommandCntLen(AnyP, AnyQ)
    \/ GetVin(AnyP, AnyQ)
    \/ GetDtcInfo(AnyP, AnyQ)
    \/ GetDtcs(AnyP, AnyQ)
    \/ GetRpm(AnyP, AnyQ)
    \/ GetSpeed(AnyP, AnyQ)
    \/ Return

Spec == Init /\ [][Next]_vars

(* One call of a combinator *)
NextLen == ObdCommandLen(LenP, LenQ) \/ ObdCommandCntLen(LenP, LenQ)
SpecLen == Init /\ [][NextLen]_vars

(* One call of get_vin *)
NextVin == GetVin(VinP, VinQ)
SpecVin == Init /\ [][NextVin]_vars

(* One call of get_dtc_info *)
NextDtcInfo == GetDtcInfo(InfoP, InfoQ)
SpecDtcInfo == Init /\ [][NextDtcInfo]_vars

(* One call of get_dtcs *)
NextDtcs == GetDtcs(DtcP, DtcQ)
SpecDtcs == Init /\ [][NextDtcs]_vars

(* One call of get_rpm *)
NextRpm == GetRpm(LenP, RpmQ) \/ GetRpmOneEcu
SpecRpm == Init /\ [][NextRpm]_vars

(* One rendering of a Dtc *)
NextDisplay == Display
SpecDisplay == Init /\ [][NextDisplay]_vars

-----------------------------------------------------------------------------
(* Properties *)

Called(name) == pc = "returned" /\ op = name
Answered(name) == Called(name) /\ reply.kind = "Ok"

IsErr(res, e) == res.kind = "Err" /\ res.err = e
IsOk(res, v) == res.kind = "Ok" /\ res.val = v
IsOther(res) == res.kind = "Err" /\ res.err.tag = "Other"

AllLen(rs, L) == \A i \in 1..Len(rs) : Len(rs[i]) = L

(* Index of the first payload of rs, in response order, whose length is not L *)
FirstMismatch(rs, L) ==
    CHOOSE i \in 1..Len(rs) :
        /\ Len(rs[i]) # L
        /\ \A j \in 1..(i - 1) : Len(rs[j]) = L

LengthError(rs, L) ==
    IncorrectResponseLength("length", L, Len(rs[FirstMismatch(rs, L)]))

(* C1: obd_command_len with expected length L returns the payloads unchanged *)
(* and in order when each has length L, and otherwise the error            *)
(* IncorrectResponseLength("length", L, a), a the length of the first      *)
(* payload whose length is not L, with no partial result.                  *)
C1_LenAllOrFirstMismatch ==
    Answered("obd_command_len") =>
        IF AllLen(reply.val, args.len)
        THEN IsOk(result, reply.val)
        ELSE IsErr(result, LengthError(reply.val, args.len))

C1_Witness ==
    /\ Answered("obd_command_len")
    /\ args.len = 2
    /\ Len(reply.val) = 2
    /\ Len(reply.val[1]) = 2
    /\ Len(reply.val[2]) = 3
    /\ IsErr(result, IncorrectResponseLength("length", 2, 3))

(* C2 as stated: obd_command_cnt_len with expected count N fails with      *)
(* IncorrectResponseLength("count", N, actual_count) for every response    *)
(* set whose number of responses is not N, and succeeds with the payloads  *)
(* when the count is N and the lengths are valid.                          *)
C2_CountErrorWheneverCountDiffers ==
    Answered("obd_command_cnt_len") =>
        /\ Len(reply.val) # args.cnt =>
              IsErr(result,
                    IncorrectResponseLength("count", args.cnt, Len(reply.val)))
        /\ (Len(reply.val) = args.cnt /\ AllLen(reply.val, args.len)) =>
              IsOk(result, reply.val)

(* C2 amended: the length check comes first. A response set with a payload *)
(* of length other than L fails with the "length" error of its first such  *)
(* payload, whatever its count; a set whose payloads all have length L     *)
(* fails with IncorrectResponseLength("count", N, actual_count) when its   *)
(* count is not N and succeeds with its payloads in order when it is N.    *)
C2_CountErrorAfterLengthCheck ==
    Answered("obd_command_cnt_len") =>
        IF ~AllLen(reply.val, args.len)
        THEN IsErr(result, LengthError(reply.val, args.len))
        ELSE IF Len(reply.val) # args.cnt
        THEN IsErr(result,
                   IncorrectResponseLength("count", args.cnt, Len(reply.val)))
        ELSE IsOk(result, reply.val)

C2_Witness ==
    /\ Answered("obd_command_cnt_len")
    /\ args.cnt = 1
    /\ Len(reply.val) = 2
    /\ AllLen(reply.val, args.len)
    /\ IsErr(result, IncorrectResponseLength("count", 1, 2))

(* C3: get_vin returns an Error::Other, not a crash, when the transport    *)
(* answers with no ECU response at all or when the bytes after the first   *)
(* byte of the response are not valid UTF-8; otherwise it returns the      *)
(* response with its first byte removed, decoded as a string.              *)
C3_VinErrorNotCrash ==
    Answered("get_vin") =>
        LET rs == reply.val IN
        IF rs = <<>> THEN IsOther(result)
        ELSE LET rest == SubSeq(rs[Len(rs)], 2, Len(rs[Len(rs)])) IN
             IF Utf8Valid(rest) THEN IsOk(result, rest) ELSE IsOther(result)

(* C4: get_dtcs returns Ok or Err for every response set, also one with a  *)
(* response whose first byte is 1, 2 or 3; it never panics.                *)
C4_DtcsNeverPanics ==
    Called("get_dtcs") => result.kind \in {"Ok", "Err"}

NoFirstByte1To3(rs) ==
    \A i \in 1..Len(rs) : rs[i] # <<>> => ~(rs[i][1] \in 1..3)

(* C5 as stated: with no response of first byte 1..3, get_dtcs fails with  *)
(* Error::Other when some response is empty, or has a first byte that is   *)
(* neither 0 nor in 1..3, or has first byte 0 and a remaining length       *)
(* (bytes after the first) that is not odd; a response of first byte 0 is  *)
(* decoded only when its remaining length is odd.                          *)
C5_RejectsNotOddRemainder ==
    (Answered("get_dtcs") /\ NoFirstByte1To3(reply.val)) =>
        LET rs == reply.val
            Bad(r) == \/ r = <<>>
                      \/ r[1] > 3
                      \/ r[1] = 0 /\ (Len(r) - 1) % 2 # 1
        IN  /\ (\E i \in 1..Len(rs) : Bad(rs[i])) => IsOther(result)
            /\ result.kind = "Ok" =>
                  \A i \in 1..Len(rs) : (Len(rs[i]) - 1) % 2 = 1

(* C5 amended: with no response of first byte 1..3, get_dtcs fails with    *)
(* Error::Other when some response is empty, or has a first byte that is   *)
(* neither 0 nor in 1..3, or has first byte 0 and a remaining length that  *)
(* is not even (a total length that is not odd); a response of first byte  *)
(* 0 is decoded only when its remaining length is even.                    *)
C5_RejectsNotEvenRemainder ==
    (Answered("get_dtcs") /\ NoFirstByte1To3(reply.val)) =>
        LET rs == reply.val
            Bad(r) == \/ r = <<>>
                      \/ r[1] > 3
                      \/ r[1] = 0 /\ (Len(r) - 1) % 2 # 0
        IN  /\ (\E i \in 1..Len(rs) : Bad(rs[i])) => IsOther(result)
            /\ result.kind = "Ok" =>
                  \A i \in 1..Len(rs) :
                      rs[i] # <<>> /\ rs[i][1] = 0 /\ (Len(rs[i]) - 1) % 2 = 0

C5_Witness ==
    /\ Answered("get_dtcs")
    /\ NoFirstByte1To3(reply.val)
    /\ Len(reply.val) = 2
    /\ reply.val[1] = <<0, 67, 0>>
    /\ reply.val[2] = <<0, 129>>
    /\ IsOther(result)

TagOfTopBits(b) ==
    LET top == b \div 64 IN
    IF top = 0 THEN "Powertrain"
    ELSE IF top = 1 THEN "Chassis"
    ELSE IF top = 2 THEN "Body"
    ELSE "Network"

(* C6: when get_dtcs returns Ok, the result has one list per ECU response  *)
(* in response order; the list of response r has one Dtc per byte pair of  *)
(* r at offsets 1, 3, 5, ..., in order, its tag selected by the top 2 bits *)
(* of the pair's first byte (00 Powertrain, 01 Chassis, 10 Body,           *)
(* 11 Network) and its code always 0.                                      *)
C6_OneDtcPerPair ==
    (Answered("get_dtcs") /\ result.kind = "Ok") =>
        LET rs == reply.val
            out == result.val
        IN  /\ Len(out) = Len(rs)
            /\ \A i \in 1..Len(rs) :
                  /\ 2 * Len(out[i]) = Len(rs[i]) - 1
                  /\ \A k \in 1..Len(out[i]) :
                        /\ out[i][k].tag = TagOfTopBits(rs[i][2 * k])
                        /\ out[i][k].code = 0

C6_Witness ==
    /\ Answered("get_dtcs")
    /\ reply.val = <<<<0, 129, 0, 193, 67>>, <<0, 67, 0>>>>
    /\ result = Ok(<<<<Body(0), Network(0)>>, <<Chassis(0)>>>>)

Bit(b, k) == (b \div (2 ^ k)) % 2

(* The fields of a DtcsInfo read off the bits of the response bytes. *)
InfoFromBits(r) ==
    [malfunction_indicator_light |-> Bit(r[1], 7) = 1,
     dtc_count |-> r[1] % 128,
     common_test_availability |-> ((r[2] \div 16) * 8) + (r[2] % 8),
     is_compression_engine |-> Bit(r[2], 3) = 1,
     specific_test_availability |-> (r[4] * 256) + r[3]]

FirstNot4(rs) ==
    CHOOSE i \in 1..Len(rs) :
        /\ Len(rs[i]) # 4
        /\ \A j \in 1..(i - 1) : Len(rs[j]) = 4

(* C7: get_dtc_info returns Ok exactly when every ECU response has 4       *)
(* bytes b0..b3, and then one DtcsInfo per response in order with          *)
(* malfunction_indicator_light = bit 7 of b0, dtc_count = b0 & 0x7F (in    *)
(* 0..127), common_test_availability = ((b1 & 0xF0) >> 1) | (b1 & 0x07),   *)
(* is_compression_engine = bit 3 of b1, specific_test_availability =       *)
(* (b3 << 8) | b2; otherwise the call fails with an Other error naming     *)
(* the length of the first response that has not 4 bytes.                  *)
C7_DtcInfoDecoding ==
    Answered("get_dtc_info") =>
        LET rs == reply.val IN
        IF AllLen(rs, 4)
        THEN /\ result.kind = "Ok"
             /\ Len(result.val) = Len(rs)
             /\ \A i \in 1..Len(rs) :
                   /\ result.val[i] = InfoFromBits(rs[i])
                   /\ result.val[i].dtc_count \in 0..127
        ELSE /\ IsOther(result)
             /\ result.err.msg[Len(result.err.msg)] = Len(rs[FirstNot4(rs)])

C7_Witness ==
    /\ Answered("get_dtc_info")
    /\ reply.val = <<<<129, 152, 2, 3>>, <<127, 255, 8, 0>>>>
    /\ result.kind = "Ok"
    /\ result.val[1] =
          [malfunction_indicator_light |-> TRUE,
           dtc_count |-> 1,
           common_test_availability |-> 72,
           is_compression_engine |-> TRUE,
           specific_test_availability |-> 770]

RequestOf(name) ==
    IF name = "get_vin" THEN [mode |-> 9, pid |-> <<2>>]
    ELSE IF name = "get_dtc_info" THEN [mode |-> 1, pid |-> <<1>>]
    ELSE IF name = "get_dtcs" THEN [mode |-> 3, pid |-> <<>>]
    ELSE [mode |-> 1, pid |-> <<12>>]

(* C8: in any sequence of accessor calls each call issues exactly one      *)
(* request to the raw command primitive; when that request fails the call  *)
(* returns the same transport failure, with no second request, no decoding *)
(* and no conversion into an Other or IncorrectResponseLength error.       *)
C8_OneRequestNoRetry ==
    /\ issued = calls
    /\ pc = "returned" =>
          /\ sent = <<RequestOf(op)>>
          /\ reply.kind = "Err" => result = reply

C8_Witness ==
    /\ calls = 2
    /\ Called("get_speed")
    /\ reply = Err(Device("timeout"))
    /\ result = Err(Device("timeout"))
    /\ Len(sent) = 1

HexDigitValue(ch) == CHOOSE v \in 0..15 : HexChars[v + 1] = ch

RECURSIVE HexValue(_)
HexValue(s) ==
    IF s = <<>> THEN 0
    ELSE 16 * HexValue(SubSeq(s, 1, Len(s) - 1)) + HexDigitValue(s[Len(s)])

LetterOfTag(t) ==
    CASE t = "Powertrain" -> "P"
      [] t = "Chassis" -> "C"
      [] t = "Body" -> "B"
      [] t = "Network" -> "U"

Rendered(digits) ==
    /\ text = <<LetterOfTag(dtc.tag)>> \o digits
    /\ \A i \in 1..Len(digits) : \E v \in 0..15 : HexChars[v + 1] = digits[i]
    /\ HexValue(digits) = dtc.code

(* C9 as stated: the Display rendering of every Dtc value is the letter of *)
(* its tag (P, C, B, U) followed by the code as exactly 3 uppercase        *)
(* hexadecimal digits, zero-padded on the left.                            *)
C9_ExactlyThreeDigits ==
    dtc # None => Len(text) = 4 /\ Rendered(Tail(text))

(* C9 amended: the rendering is the letter of the tag followed by the code *)
(* in uppercase hexadecimal, zero-padded on the left to at least 3 digits: *)
(* exactly 3 digits for a code up to 0xFFF, 4 digits for a larger code.    *)
C9_AtLeastThreeDigits ==
    dtc # None =>
        /\ Len(text) = (IF dtc.code <= 4095 THEN 4 ELSE 5)
        /\ Rendered(Tail(text))

C9_Witness ==
    /\ dtc = Body(3)
    /\ text = <<"B", "0", "0", "3">>

(* C10: get_rpm requests mode 0x01 PID 0x0C and succeeds exactly when one  *)
(* ECU answered a payload of 2 bytes [hi, lo]; the RPM returned then       *)
(* satisfies 4 * rpm = 256 * hi + lo; any other response shape gives an    *)
(* IncorrectResponseLength error and never a value.                        *)
C10_RpmQuarterResolution ==
    Called("get_rpm") =>
        /\ sent = <<[mode |-> 1, pid |-> <<12>>]>>
        /\ result.kind = "Ok" <=>
              (reply.kind = "Ok" /\ Len(reply.val) = 1 /\ Len(reply.val[1]) = 2)
        /\ result.kind = "Ok" =>
              /\ result.val.den > 0
              /\ 4 * result.val.num =
                    (256 * reply.val[1][1] + reply.val[1][2]) * result.val.den
        /\ (reply.kind = "Ok" /\ result.kind # "Ok") =>
              result.kind = "Err" /\ result.err.tag = "IncorrectResponseLength"

C10_Witness ==
    /\ Called("get_rpm")
    /\ reply = Ok(<<<<26, 248>>>>)
    /\ result.kind = "Ok"
    /\ result.val.num = 1726 * result.val.den

====
